---- MODULE Spec2Model ----
(***************************************************************************)
(* Temporal signal pipeline of the driving world model:                    *)
(*   temporal_smoothing.py      majority-vote smoothing per clip           *)
(*   segment_world_state.py     phase segments of the smoothed triples     *)
(*   build_state_and_planner.py GO re-injection, state classification,     *)
(*                              state segments, prev/next links, planner   *)
(*   run_vlm_inference.py       the raw table, one row per inferred frame  *)
(*   main.py                    the driver: stage order, caches, failures  *)
(*   extract_frames.py          the frames of a clip, kept if present      *)
(*   overlay_world_state.py     the HUD of each frame of the overlay video *)
(* Strings are the label tokens of the program; frame_index is a natural   *)
(* number (the stages convert the CSV text with int() when they load it).  *)
(***************************************************************************)
EXTENDS Integers, Sequences, FiniteSets, TLC

VARIABLES
    pc,             \* position of the run: which stage has completed
    triple,         \* classifier input (affordance, yield_to, lead_state)
    state,          \* symbolic state handed to map_state_to_planner
    planner_info,   \* record returned by map_state_to_planner
    raw_csv,        \* rows of world_state_claude.csv, in file order
    smoothed_csv,   \* rows of world_state_claude_smoothed.csv
    segments_csv,   \* rows of world_state_segments.csv
    final_rows,     \* rows returned by reinject_go_short
    state_segs,     \* segments returned by segment_states
    machine_rows,   \* segments returned by add_prev_next
    planner_rows,   \* rows of planner_commands.csv
    files,          \* names of the files that exist in data/predictions
    rows_mem,       \* temporal_smoothing.main: `rows` after smooth_sequence
    smoothed_rows_mem, \* build main: `smoothed_rows` after reinject_go_short
    segs_mem,       \* build main: the dicts of segment_states after add_prev_next
    labels,         \* the rows a complete inference run writes
    partial,        \* files left behind by a stage that failed
    skipped,        \* files the driver run has taken as cached output
    force,          \* main.py: `force` of the driver run
    frames_dir,     \* data/frames/clip1: absent, or extracted from the video
                    \* as it is now (fresh) or as it was before (stale)
    hud             \* the HUD of each frame of results/clip1_overlay.mp4

memVars == <<rows_mem, smoothed_rows_mem, segs_mem>>
driverVars == <<labels, partial, skipped, force, frames_dir, hud>>

vars == <<pc, triple, state, planner_info, raw_csv, smoothed_csv, segments_csv,
          final_rows, state_segs, machine_rows, planner_rows, files, memVars,
          driverVars>>

(***************************************************************************)
(* Label vocabulary (vlm_infer.parse_world_state clamps every label to     *)
(* these sets, mapping anything else to the empty string).                 *)
(***************************************************************************)
Affordances == {"go", "wait", "stop", ""}
YieldTargets == {"none", "lead", "ped", ""}
LeadStates == {"none", "moving", "stopped", ""}

\* str.strip() on the strings of the model: a token without surrounding
\* white space is returned as it is, a padded token loses its padding.
Strip(s) ==
    CASE s = "stop "     -> "stop"
      [] s = " ped"      -> "ped"
      [] s = " stopped " -> "stopped"
      [] OTHER           -> s

(***************************************************************************)
(* StateClassifier: build_state_and_planner.map_world_to_state             *)
(***************************************************************************)
\* variant: with a moving (or unknown) lead, anything but "stop" counts as go
map_world_to_state_LeadMoving(a0, y0, l0) ==
    LET a == Strip(a0)
        y == Strip(y0)
        l == Strip(l0)
    IN  IF y = "ped"
        THEN IF a = "stop" THEN "STOP_PED" ELSE "YIELD_PED"
        ELSE IF y = "lead"
        THEN IF l = "stopped"
             THEN IF a = "stop" THEN "STOP_LEAD" ELSE "FOLLOW_QUEUE"
             ELSE IF a # "stop" THEN "GO_FOLLOW" ELSE "FOLLOW_QUEUE"
        ELSE IF a = "go" /\ y = "none"
        THEN IF l \in {"none", ""} THEN "GO_FREE" ELSE "GO"
        ELSE IF a = "wait" /\ y = "none"
        THEN "NEGOTIATE"
        ELSE "UNKNOWN"

\* variant: an extra rule gives (stop, none, _) a state of its own
map_world_to_state_PlainStop(a0, y0, l0) ==
    LET a == Strip(a0)
        y == Strip(y0)
        l == Strip(l0)
    IN  IF y = "ped"
        THEN IF a = "stop" THEN "STOP_PED" ELSE "YIELD_PED"
        ELSE IF y = "lead"
        THEN IF l = "stopped"
             THEN IF a = "stop" THEN "STOP_LEAD" ELSE "FOLLOW_QUEUE"
             ELSE IF a = "go" THEN "GO_FOLLOW" ELSE "FOLLOW_QUEUE"
        ELSE IF a = "go" /\ y = "none"
        THEN IF l \in {"none", ""} THEN "GO_FREE" ELSE "GO"
        ELSE IF a = "wait" /\ y = "none"
        THEN "NEGOTIATE"
        ELSE IF a = "stop" /\ y = "none"
        THEN "STOP"
        ELSE "UNKNOWN"

\* variant: an empty yield_to counts as "none"
map_world_to_state_EmptyYieldIsNone(a0, y0, l0) ==
    LET a == Strip(a0)
        y == IF Strip(y0) = "" THEN "none" ELSE Strip(y0)
        l == Strip(l0)
    IN  IF y = "ped"
        THEN IF a = "stop" THEN "STOP_PED" ELSE "YIELD_PED"
        ELSE IF y = "lead"
        THEN IF l = "stopped"
             THEN IF a = "stop" THEN "STOP_LEAD" ELSE "FOLLOW_QUEUE"
             ELSE IF a = "go" THEN "GO_FOLLOW" ELSE "FOLLOW_QUEUE"
        ELSE IF a = "go" /\ y = "none"
        THEN IF l \in {"none", ""} THEN "GO_FREE" ELSE "GO"
        ELSE IF a = "wait" /\ y = "none"
        THEN "NEGOTIATE"
        ELSE "UNKNOWN"

map_world_to_state(a0, y0, l0) ==
    LET a == Strip(a0)
        y == Strip(y0)
        l == Strip(l0)
    IN  IF y = "ped"
        THEN IF a = "stop" THEN "STOP_PED" ELSE "YIELD_PED"
        ELSE IF y = "lead"
        THEN IF l = "stopped"
             THEN IF a = "stop" THEN "STOP_LEAD" ELSE "FOLLOW_QUEUE"
             ELSE IF a = "go" THEN "GO_FOLLOW" ELSE "FOLLOW_QUEUE"
        ELSE IF a = "go" /\ y = "none"
        THEN IF l \in {"none", ""} THEN "GO_FREE" ELSE "GO"
        ELSE IF a = "wait" /\ y = "none"
        THEN "NEGOTIATE"
        ELSE "UNKNOWN"

(***************************************************************************)
(* PlannerSynthesizer: build_state_and_planner.map_state_to_planner        *)
(***************************************************************************)
PlannerInfo(cmd, reason, target, until) ==
    [planner_cmd |-> cmd, reason |-> reason, target |-> target, until |-> until]

\* variant: the STOP_PED branch is missing, so STOP_PED takes the fallback
map_state_to_planner_NoStopPed(state0) ==
    LET s == Strip(state0)
    IN  IF s = "FOLLOW_QUEUE"
        THEN PlannerInfo("FOLLOW", "traffic_queue", "lead", "lead_moves")
        ELSE IF s = "GO_FOLLOW"
        THEN PlannerInfo("GO", "lead_moving", "lead", "constraint_reappears")
        ELSE IF s \in {"GO_FREE", "GO"}
        THEN PlannerInfo("GO", "corridor_clear", "", "constraint_reappears")
        ELSE IF s = "YIELD_PED"
        THEN PlannerInfo("WAIT", "pedestrian_in_path", "ped", "ped_clears")
        ELSE IF s = "STOP_LEAD"
        THEN PlannerInfo("STOP", "lead_vehicle_stopped", "lead", "lead_moves")
        ELSE IF s = "NEGOTIATE"
        THEN PlannerInfo("WAIT", "negotiating_gap", "", "scene_resolves")
        ELSE PlannerInfo("WAIT", "unknown_state", "", "state_resolved")

map_state_to_planner(state0) ==
    LET s == Strip(state0)
    IN  IF s = "FOLLOW_QUEUE"
        THEN PlannerInfo("FOLLOW", "traffic_queue", "lead", "lead_moves")
        ELSE IF s = "GO_FOLLOW"
        THEN PlannerInfo("GO", "lead_moving", "lead", "constraint_reappears")
        ELSE IF s \in {"GO_FREE", "GO"}
        THEN PlannerInfo("GO", "corridor_clear", "", "constraint_reappears")
        ELSE IF s = "YIELD_PED"
        THEN PlannerInfo("WAIT", "pedestrian_in_path", "ped", "ped_clears")
        ELSE IF s = "STOP_PED"
        THEN PlannerInfo("STOP", "pedestrian_blocking", "ped", "ped_clears")
        ELSE IF s = "STOP_LEAD"
        THEN PlannerInfo("STOP", "lead_vehicle_stopped", "lead", "lead_moves")
        ELSE IF s = "NEGOTIATE"
        THEN PlannerInfo("WAIT", "negotiating_gap", "", "scene_resolves")
        ELSE PlannerInfo("WAIT", "unknown_state", "", "state_resolved")

(***************************************************************************)
(* Shared helpers of the three stages.                                     *)
(***************************************************************************)
Triple(a, y, l) == [affordance |-> a, yield_to |-> y, lead_state |-> l]

RawTriple(r) == Triple(r.affordance, r.yield_to, r.lead_state)
SmoothedTriple(r) ==
    Triple(r.affordance_smoothed, r.yield_to_smoothed, r.lead_state_smoothed)
FinalTriple(r) ==
    Triple(r.affordance_final, r.yield_to_final, r.lead_state_final)

\* the lists of the clips, one after the other
RECURSIVE Concat(_)
Concat(seqs) ==
    IF seqs = <<>> THEN <<>> ELSE Head(seqs) \o Concat(Tail(seqs))

\* keys of the dict built by `by_clip.setdefault(r["clip"], []).append(r)`:
\* the clips in the order of their first row (dicts keep insertion order);
\* i is the position of the next row, keys the keys so far
RECURSIVE ClipOrderFrom(_, _, _)
ClipOrderFrom(rows, i, keys) ==
    IF i > Len(rows) THEN keys
    ELSE ClipOrderFrom(rows, i + 1,
            IF \E k \in 1..Len(keys) : keys[k] = rows[i].clip THEN keys
            ELSE Append(keys, rows[i].clip))

ClipOrder(rows) == ClipOrderFrom(rows, 1, <<>>)

\* by_clip[c]: the rows of clip c in input order
RowsOfClip(rows, c) == SelectSeq(rows, LAMBDA r : r.clip = c)

\* the place of row i in a stable sort by frame_index: after the rows of
\* smaller frame_index and after the earlier rows of equal frame_index
SortedPlace(rows, i) ==
    1 + Cardinality({j \in 1..Len(rows) :
                        \/ rows[j].frame_index < rows[i].frame_index
                        \/ rows[j].frame_index = rows[i].frame_index /\ j < i})

\* sorted(clip_rows, key=lambda r: r["frame_index"]): Python's sort is stable
SortByFrameIndex(rows) ==
    [p \in 1..Len(rows) |->
        rows[CHOOSE i \in 1..Len(rows) : SortedPlace(rows, i) = p]]

(***************************************************************************)
(* SignalSmoother: temporal_smoothing.py                                   *)
(***************************************************************************)
Window == 3

\* collections.Counter(values): <<value, count>> pairs in first-occurrence
\* order; i is the position of the next value
RECURSIVE CounterFrom(_, _, _)
CounterFrom(values, i, counts) ==
    IF i > Len(values) THEN counts
    ELSE CounterFrom(values, i + 1,
            IF \E k \in 1..Len(counts) : counts[k][1] = values[i]
            THEN [k \in 1..Len(counts) |->
                     IF counts[k][1] = values[i]
                     THEN <<values[i], counts[k][2] + 1>> ELSE counts[k]]
            ELSE Append(counts, <<values[i], 1>>))

Counter(values) == CounterFrom(values, 1, <<>>)

\* variant: a later item of equal count replaces the best one (>= for >)
RECURSIVE MaxByCount_LastWins(_, _, _)
MaxByCount_LastWins(counts, i, best) ==
    IF i > Len(counts) THEN best
    ELSE MaxByCount_LastWins(counts, i + 1,
            IF counts[i][2] >= best[2] THEN counts[i] ELSE best)

\* max(items, key=count): the first of the items of greatest count;
\* i is the position of the next item
RECURSIVE MaxByCount(_, _, _)
MaxByCount(counts, i, best) ==
    IF i > Len(counts) THEN best
    ELSE MaxByCount(counts, i + 1,
            IF counts[i][2] > best[2] THEN counts[i] ELSE best)

\* counts.most_common(1)[0]: heapq.nlargest(1, items, key=count) is max()
MostCommon(counts) == MaxByCount(counts, 2, counts[1])

\* variant: the empty string is not filtered out and takes part in the vote
majority_vote_CountsEmpty(values) ==
    IF values = <<>> THEN "" ELSE MostCommon(Counter(values))[1]

majority_vote(values) ==
    LET non_empty == SelectSeq(values, LAMBDA v : v # "")
    IN  IF non_empty = <<>> THEN ""
        ELSE MostCommon(Counter(non_empty))[1]

Max(a, b) == IF a >= b THEN a ELSE b
Min(a, b) == IF a <= b THEN a ELSE b

\* variant: the window starts at the frame itself
WindowRows_Lookahead(rows, i, half) ==
    SubSeq(rows, i, Min(Len(rows), i + half))

\* variant: the window ends at the frame itself (no look-ahead)
WindowRows_Causal(rows, i, half) ==
    SubSeq(rows, Max(1, i - half), i)

\* rows[start : end + 1] with start = max(0, i - half), end = min(n - 1, i + half);
\* positions are counted from 1 here
WindowRows(rows, i, half) ==
    SubSeq(rows, Max(1, i - half), Min(Len(rows), i + half))

\* `x or y` on strings
Or(x, y) == IF x # "" THEN x ELSE y

Column(rows, field) == [j \in 1..Len(rows) |-> rows[j][field]]

smooth_sequence(rows, window) ==
    LET half == window \div 2
    IN  [i \in 1..Len(rows) |->
            LET window_rows == WindowRows(rows, i, half)
                aff_s == majority_vote(Column(window_rows, "affordance"))
                y_s == majority_vote(Column(window_rows, "yield_to"))
                lead_s == majority_vote(Column(window_rows, "lead_state"))
                row == rows[i]
            IN  [clip |-> row.clip,
                 frame_index |-> row.frame_index,
                 affordance |-> row.affordance,
                 yield_to |-> row.yield_to,
                 lead_state |-> row.lead_state,
                 affordance_smoothed |-> Or(aff_s, row.affordance),
                 yield_to_smoothed |-> Or(y_s, row.yield_to),
                 lead_state_smoothed |-> Or(lead_s, row.lead_state)]]

\* variant: the table is smoothed as one sequence, not clip by clip
SmoothAll_NoGrouping(rows) ==
    smooth_sequence(SortByFrameIndex(rows), Window)

\* temporal_smoothing.main, from the rows read to the rows written
SmoothAll(rows) ==
    LET clips == ClipOrder(rows)
    IN  Concat([k \in 1..Len(clips) |->
                   smooth_sequence(SortByFrameIndex(RowsOfClip(rows, clips[k])),
                                   Window)])

(***************************************************************************)
(* Phase segments: segment_world_state.py                                  *)
(***************************************************************************)
infer_phase(seg) ==
    LET a == seg.affordance
        y == seg.yield_to
        l == seg.lead_state
    IN  IF a = "stop"
        THEN IF y = "ped" THEN "STOP for pedestrian"
             ELSE IF y = "lead" THEN "STOP behind vehicle"
             ELSE "STOP"
        ELSE IF a = "wait"
        THEN IF y = "ped" THEN "YIELD to pedestrian"
             ELSE IF y = "lead" THEN "FOLLOW / queue"
             ELSE "WAIT"
        ELSE IF a = "go"
        THEN IF y = "lead" /\ l = "moving" THEN "FOLLOW moving lead"
             ELSE "GO"
        ELSE "UNKNOWN"

\* the dict appended by segment_clip when a run is closed
ClipSegment(start, end, key) ==
    [start |-> start, end |-> end, affordance |-> key.affordance,
     yield_to |-> key.yield_to, lead_state |-> key.lead_state]

\* variant: the run is extended on an equal key alone
PhaseExtends_KeyOnly(k, current_key, fi, current_end) ==
    k = current_key

\* variant: the run is extended on a consecutive frame_index alone
PhaseExtends_IndexOnly(k, current_key, fi, current_end) ==
    fi = current_end + 1

\* `k == current_key and fi == current_end + 1`
PhaseExtends(k, current_key, fi, current_end) ==
    k = current_key /\ fi = current_end + 1

\* the loop `for r in rows[1:]` of segment_clip and the append after it;
\* i is the position of the next row
RECURSIVE segment_clip_loop(_, _, _, _, _, _)
segment_clip_loop(rows, i, segments, current_start, current_end, current_key) ==
    IF i > Len(rows)
    THEN Append(segments, ClipSegment(current_start, current_end, current_key))
    ELSE LET k == SmoothedTriple(rows[i])
             fi == rows[i].frame_index
         IN  IF PhaseExtends(k, current_key, fi, current_end)
             THEN segment_clip_loop(rows, i + 1, segments,
                                    current_start, fi, current_key)
             ELSE segment_clip_loop(rows, i + 1,
                     Append(segments,
                            ClipSegment(current_start, current_end, current_key)),
                     fi, fi, k)

segment_clip(rows) ==
    IF rows = <<>> THEN <<>>
    ELSE segment_clip_loop(rows, 2, <<>>, rows[1].frame_index,
                           rows[1].frame_index, SmoothedTriple(rows[1]))

\* the rows segment_world_state.main writes for one clip
PhaseRows(clip, clip_rows) ==
    LET segments == segment_clip(SortByFrameIndex(clip_rows))
    IN  [k \in 1..Len(segments) |->
            [clip |-> clip,
             segment_id |-> k - 1,
             start |-> segments[k].start,
             end |-> segments[k].end,
             affordance |-> segments[k].affordance,
             yield_to |-> segments[k].yield_to,
             lead_state |-> segments[k].lead_state,
             phase |-> infer_phase(segments[k])]]

\* variant: segment_id runs on from one clip to the next
SegmentAll_RunningId(rows) ==
    LET clips == ClipOrder(rows)
        out == Concat([k \in 1..Len(clips) |->
                          PhaseRows(clips[k], RowsOfClip(rows, clips[k]))])
    IN  [k \in 1..Len(out) |-> [out[k] EXCEPT !.segment_id = k - 1]]

\* segment_world_state.main, from the rows read to the rows written
SegmentAll(rows) ==
    LET clips == ClipOrder(rows)
    IN  Concat([k \in 1..Len(clips) |->
                   PhaseRows(clips[k], RowsOfClip(rows, clips[k]))])

(***************************************************************************)
(* GoReinjector: build_state_and_planner.reinject_go_short                 *)
(***************************************************************************)
RawKey(r) == <<Strip(r.clip), r.frame_index>>

\* load_raw_world: a dict keyed by (clip, frame_index); a later row with the
\* same key replaces the earlier one
load_raw_world(rows) ==
    [key \in {RawKey(rows[i]) : i \in 1..Len(rows)} |->
        LET last == CHOOSE i \in 1..Len(rows) :
                       /\ RawKey(rows[i]) = key
                       /\ \A j \in (i + 1)..Len(rows) : RawKey(rows[j]) # key
        IN  Triple(Strip(rows[last].affordance), Strip(rows[last].yield_to),
                   Strip(rows[last].lead_state))]

\* variant: the raw yield target is not looked at
ReinjectCondition_NoRawPed(a_raw, a_sm, y_sm, y_raw) ==
    a_raw = "go" /\ a_sm # "go" /\ y_sm # "ped"

\* variant: the smoothed yield target is not looked at
ReinjectCondition_NoSmoothedPed(a_raw, a_sm, y_sm, y_raw) ==
    a_raw = "go" /\ a_sm # "go" /\ y_raw # "ped"

\* variant: only a smoothed stop is replaced
ReinjectCondition_SmoothedStop(a_raw, a_sm, y_sm, y_raw) ==
    a_raw = "go" /\ a_sm = "stop" /\ y_sm # "ped" /\ y_raw # "ped"

\* the condition of the `if` that re-injects GO
ReinjectCondition(a_raw, a_sm, y_sm, y_raw) ==
    a_raw = "go" /\ a_sm # "go" /\ y_sm # "ped" /\ y_raw # "ped"

\* variant: only the affordance is taken from the raw record
Reinjected_AffordanceOnly(raw, sm) ==
    Triple(raw.affordance, sm.yield_to, sm.lead_state)

\* `a_final, y_final, l_final = a_raw, y_raw, l_raw`
Reinjected(raw, sm) == raw

\* variant: a frame without a raw record gets the empty triple
FinalOf_MissEmpty(raw_map, row) ==
    LET key == RawKey(row)
        sm == Triple(Strip(row.affordance_smoothed), Strip(row.yield_to_smoothed),
                     Strip(row.lead_state_smoothed))
    IN  IF key \notin DOMAIN raw_map THEN Triple("", "", "")
        ELSE IF ReinjectCondition(raw_map[key].affordance, sm.affordance,
                                  sm.yield_to, raw_map[key].yield_to)
        THEN Reinjected(raw_map[key], sm)
        ELSE sm

\* the final triple of one row of the smoothed table
FinalOf(raw_map, row) ==
    LET key == RawKey(row)
        sm == Triple(Strip(row.affordance_smoothed), Strip(row.yield_to_smoothed),
                     Strip(row.lead_state_smoothed))
    IN  IF key \in DOMAIN raw_map
           /\ ReinjectCondition(raw_map[key].affordance, sm.affordance,
                                sm.yield_to, raw_map[key].yield_to)
        THEN Reinjected(raw_map[key], sm)
        ELSE sm

reinject_go_short(raw_map, smoothed_rows) ==
    [i \in 1..Len(smoothed_rows) |->
        LET row == smoothed_rows[i]
            final == FinalOf(raw_map, row)
        IN  [clip |-> row.clip,
             frame_index |-> row.frame_index,
             affordance |-> row.affordance,
             yield_to |-> row.yield_to,
             lead_state |-> row.lead_state,
             affordance_smoothed |-> row.affordance_smoothed,
             yield_to_smoothed |-> row.yield_to_smoothed,
             lead_state_smoothed |-> row.lead_state_smoothed,
             affordance_final |-> final.affordance,
             yield_to_final |-> final.yield_to,
             lead_state_final |-> final.lead_state]]

(***************************************************************************)
(* State segments: build_state_and_planner.segment_states                  *)
(***************************************************************************)
\* variant: the end of the range is recorded exclusive
StateSegment_EndExclusive(clip, seg_id, start, end, s, t) ==
    [clip |-> clip, segment_id |-> seg_id, start_frame |-> start,
     end_frame |-> end + 1, state |-> s, affordance |-> t.affordance,
     yield_to |-> t.yield_to, lead_state |-> t.lead_state]

StateSegment(clip, seg_id, start, end, s, t) ==
    [clip |-> clip, segment_id |-> seg_id, start_frame |-> start,
     end_frame |-> end, state |-> s, affordance |-> t.affordance,
     yield_to |-> t.yield_to, lead_state |-> t.lead_state]

\* variant: the run is extended on an equal state alone
StateExtends_StateOnly(s, current_state, fi, current_end) ==
    s = current_state

\* variant: the run is extended on a consecutive frame_index alone
StateExtends_IndexOnly(s, current_state, fi, current_end) ==
    fi = current_end + 1

\* `s == current_state and fi == current_end + 1`
StateExtends(s, current_state, fi, current_end) ==
    s = current_state /\ fi = current_end + 1

\* the loop `for r in clip_rows` of segment_states from its second row on,
\* and the closing of the last segment; i is the position of the next row,
\* segments the segments of this clip so far (seg_id is their number)
RECURSIVE segment_states_loop(_, _, _, _, _, _, _, _)
segment_states_loop(clip, rows, i, segments, cur_state, cur_start, cur_end, cur_t) ==
    LET closed == StateSegment(clip, Len(segments), cur_start, cur_end,
                               cur_state, cur_t)
    IN  IF i > Len(rows)
        THEN Append(segments, closed)
        ELSE LET t == FinalTriple(rows[i])
                 fi == rows[i].frame_index
                 s == map_world_to_state(t.affordance, t.yield_to, t.lead_state)
             IN  IF StateExtends(s, cur_state, fi, cur_end)
                 THEN segment_states_loop(clip, rows, i + 1, segments,
                                          cur_state, cur_start, fi, cur_t)
                 ELSE segment_states_loop(clip, rows, i + 1,
                                          Append(segments, closed), s, fi, fi, t)

\* the segments of one clip (by_clip[clip] is never empty)
ClipStateSegments(clip, clip_rows) ==
    LET rows == SortByFrameIndex(clip_rows)
        t == FinalTriple(rows[1])
    IN  segment_states_loop(clip, rows, 2, <<>>,
            map_world_to_state(t.affordance, t.yield_to, t.lead_state),
            rows[1].frame_index, rows[1].frame_index, t)

segment_states(rows) ==
    LET clips == ClipOrder(rows)
    IN  Concat([k \in 1..Len(clips) |->
                   ClipStateSegments(clips[k], RowsOfClip(rows, clips[k]))])

(***************************************************************************)
(* SegmentLinker: build_state_and_planner.add_prev_next                    *)
(***************************************************************************)
\* sorted(clip_segs, key=lambda s: s["segment_id"]), a stable sort
SortBySegmentId(segs) ==
    [p \in 1..Len(segs) |->
        segs[CHOOSE i \in 1..Len(segs) :
                p = 1 + Cardinality({j \in 1..Len(segs) :
                        \/ segs[j].segment_id < segs[i].segment_id
                        \/ segs[j].segment_id = segs[i].segment_id /\ j < i})]]

Linked(seg, prev_state, next_state) ==
    [clip |-> seg.clip, segment_id |-> seg.segment_id,
     start_frame |-> seg.start_frame, end_frame |-> seg.end_frame,
     state |-> seg.state, affordance |-> seg.affordance,
     yield_to |-> seg.yield_to, lead_state |-> seg.lead_state,
     prev_state |-> prev_state, next_state |-> next_state]

\* variant: the segments are linked along the whole list
add_prev_next_AcrossClips(segments) ==
    [i \in 1..Len(segments) |->
        Linked(segments[i],
               IF i > 1 THEN segments[i - 1].state ELSE "",
               IF i < Len(segments) THEN segments[i + 1].state ELSE "")]

add_prev_next(segments) ==
    LET clips == ClipOrder(segments)
        link(clip_segs0) ==
            LET clip_segs == SortBySegmentId(clip_segs0)
                n == Len(clip_segs)
            IN  [i \in 1..n |->
                    Linked(clip_segs[i],
                           IF i > 1 THEN clip_segs[i - 1].state ELSE "",
                           IF i < n THEN clip_segs[i + 1].state ELSE "")]
    IN  Concat([k \in 1..Len(clips) |-> link(RowsOfClip(segments, clips[k]))])

\* step 3 of build_state_and_planner.main: `r = dict(seg); r.update(planner_info)`
PlannerRows(segs) ==
    [i \in 1..Len(segs) |->
        LET info == map_state_to_planner(segs[i].state)
        IN  [clip |-> segs[i].clip, segment_id |-> segs[i].segment_id,
             start_frame |-> segs[i].start_frame, end_frame |-> segs[i].end_frame,
             state |-> segs[i].state, prev_state |-> segs[i].prev_state,
             next_state |-> segs[i].next_state,
             planner_cmd |-> info.planner_cmd, reason |-> info.reason,
             target |-> info.target, until |-> info.until]]

(***************************************************************************)
(* Inputs of the classifier specification.                                 *)
(***************************************************************************)
\* the declared domains and, per attribute, a padded and an unknown string
AffordanceInputs == Affordances \cup {"stop ", "slow"}
YieldInputs == YieldTargets \cup {" ped", "cyclist"}
LeadInputs == LeadStates \cup {" stopped ", "slow"}
\* state strings that no classifier rule returns
ForeignStates == {"", "go_free", "BRAKE"}

NoTriple == Triple("-", "-", "-")
NoPlan == PlannerInfo("-", "-", "-", "-")

EnumTriple(t) ==
    /\ t.affordance \in Affordances
    /\ t.yield_to \in YieldTargets
    /\ t.lead_state \in LeadStates

NoTables ==
    /\ raw_csv = <<>>
    /\ smoothed_csv = <<>>
    /\ segments_csv = <<>>
    /\ final_rows = <<>>
    /\ state_segs = <<>>
    /\ machine_rows = <<>>
    /\ planner_rows = <<>>
    /\ files = {}
    /\ rows_mem = <<>>
    /\ smoothed_rows_mem = <<>>
    /\ segs_mem = <<>>
    /\ labels = <<>>
    /\ partial = {}
    /\ skipped = {}
    /\ frames_dir = "absent"
    /\ hud = <<>>
    /\ force = FALSE

InitClassify ==
    /\ NoTables
    /\ planner_info = NoPlan
    /\ \/ /\ pc = "triple"
          /\ triple \in {Triple(a, y, l) : a \in AffordanceInputs,
                                            y \in YieldInputs, l \in LeadInputs}
          /\ state = "-"
       \/ /\ pc = "state"
          /\ triple = NoTriple
          /\ state \in ForeignStates

\* a call map_world_to_state(a, y, l)
Classify ==
    /\ pc = "triple"
    /\ state' = map_world_to_state(triple.affordance, triple.yield_to,
                                   triple.lead_state)
    /\ pc' = "state"
    /\ UNCHANGED <<triple, planner_info, raw_csv, smoothed_csv, segments_csv,
                   final_rows, state_segs, machine_rows, planner_rows, files,
                   memVars, driverVars>>

\* a call map_state_to_planner(state)
Synthesize ==
    /\ pc = "state"
    /\ planner_info' = map_state_to_planner(state)
    /\ pc' = "planner"
    /\ UNCHANGED <<triple, state, raw_csv, smoothed_csv, segments_csv,
                   final_rows, state_segs, machine_rows, planner_rows, files,
                   memVars, driverVars>>

NextClassify == Classify \/ Synthesize

SpecClassify == InitClassify /\ [][NextClassify]_vars

(***************************************************************************)
(* The pipeline: one action per stage, in the order main.py runs them.     *)
(***************************************************************************)
MaxLen == 3

\* raw triples of the input tables: go and wait on a free road, stop and go
\* with a pedestrian, wait behind a moving lead, and the all-empty triple of
\* an answer that could not be parsed
RawTriples ==
    {Triple("go", "none", "none"), Triple("wait", "none", "none"),
     Triple("stop", "ped", "none"), Triple("go", "ped", "none"),
     Triple("wait", "lead", "moving"), Triple("", "", "")}

\* frame_index of a frame minus that of the frame before it: the next index
\* or a gap (frame_index is unique within a clip)
FrameSteps == {1, 2}

RECURSIVE FrameIndexAt(_, _)
FrameIndexAt(steps, i) ==
    IF i = 1 THEN 0 ELSE FrameIndexAt(steps, i - 1) + steps[i - 1]

Reverse(seq) == [i \in 1..Len(seq) |-> seq[Len(seq) + 1 - i]]

\* a raw table of one clip: the rows in frame_index order or in reverse order
RawTable(clip, triples, steps, reversed) ==
    LET rows == [i \in 1..Len(triples) |->
                    [clip |-> clip,
                     frame_index |-> FrameIndexAt(steps, i),
                     affordance |-> triples[i].affordance,
                     yield_to |-> triples[i].yield_to,
                     lead_state |-> triples[i].lead_state]]
    IN  IF reversed THEN Reverse(rows) ELSE rows

\* the files of data/predictions
RawFile == "world_state_claude.csv"
SmoothedFile == "world_state_claude_smoothed.csv"
SegmentsFile == "world_state_segments.csv"
FinalFile == "world_state_final.csv"
MachineFile == "world_state_machine.csv"
PlannerFile == "planner_commands.csv"

\* no stage has run yet
NoOutputs ==
    /\ segments_csv = <<>>
    /\ final_rows = <<>>
    /\ state_segs = <<>>
    /\ machine_rows = <<>>
    /\ planner_rows = <<>>
    /\ rows_mem = <<>>
    /\ smoothed_rows_mem = <<>>
    /\ segs_mem = <<>>
    /\ labels = <<>>
    /\ partial = {}
    /\ skipped = {}
    /\ frames_dir = "absent"
    /\ hud = <<>>
    /\ triple = NoTriple
    /\ state = "-"
    /\ planner_info = NoPlan

Init ==
    /\ pc = "raw"
    /\ \E n \in 0..MaxLen :
          \E ts \in [1..n -> RawTriples], steps \in [1..(n - 1) -> FrameSteps],
             rev \in BOOLEAN :
              raw_csv = RawTable("clip1", ts, steps, rev)
    /\ smoothed_csv = <<>>
    /\ files = {RawFile}
    /\ force = FALSE
    /\ NoOutputs

\* smooth_sequence builds each output row with `row = dict(rows[i])`: the
\* dicts of `rows` are as they were
RowsAfterSmoothing(rows, all_smoothed) == rows

\* reinject_go_short sets the *_final keys on `row`, a dict of smoothed_rows,
\* and appends that dict: the list passed in holds the updated dicts
RowsAfterReinject(rows, updated) == updated

\* add_prev_next sets prev_state and next_state on `seg`, a dict of the list
\* passed in, and appends that dict: every dict of the list is the linked one
SegsAfterLink(segments, out) ==
    [i \in 1..Len(segments) |->
        out[CHOOSE j \in 1..Len(out) :
                /\ out[j].clip = segments[i].clip
                /\ out[j].segment_id = segments[i].segment_id]]

\* temporal_smoothing.main: a missing input and an input without rows are
\* errors, raised before the output is opened
TemporalSmoothing ==
    /\ pc = "raw"
    /\ IF RawFile \notin files \/ raw_csv = <<>>
       THEN /\ pc' = "failed"
            /\ UNCHANGED <<smoothed_csv, files, rows_mem>>
       ELSE /\ smoothed_csv' = SmoothAll(raw_csv)
            /\ rows_mem' = RowsAfterSmoothing(raw_csv, smoothed_csv')
            /\ files' = files \cup {SmoothedFile}
            /\ pc' = "smoothed"
    /\ UNCHANGED <<triple, state, planner_info, raw_csv, segments_csv,
                   final_rows, state_segs, machine_rows, planner_rows,
                   smoothed_rows_mem, segs_mem, driverVars>>

\* segment_world_state.main: the output is opened and its header written
\* before the clips are looked at; no test on the number of rows
SegmentWorldState ==
    /\ pc = "smoothed"
    /\ IF SmoothedFile \notin files
       THEN /\ pc' = "failed"
            /\ UNCHANGED <<segments_csv, files>>
       ELSE /\ segments_csv' = SegmentAll(smoothed_csv)
            /\ files' = files \cup {SegmentsFile}
            /\ pc' = "segmented"
    /\ UNCHANGED <<triple, state, planner_info, raw_csv, smoothed_csv,
                   final_rows, state_segs, machine_rows, planner_rows,
                   memVars, driverVars>>

\* the files build_state_and_planner.main writes: each table is written
\* only `if` it has rows
WrittenByBuild(final, segs, planner) ==
    (IF final # <<>> THEN {FinalFile} ELSE {})
        \cup (IF segs # <<>> THEN {MachineFile} ELSE {})
        \cup (IF planner # <<>> THEN {PlannerFile} ELSE {})

\* build_state_and_planner.main, started at position `from` of the run
Build(from) ==
    /\ pc = from
    /\ IF RawFile \notin files \/ SmoothedFile \notin files
       THEN /\ pc' = "failed"
            /\ UNCHANGED <<final_rows, state_segs, machine_rows, planner_rows,
                           files, smoothed_rows_mem, segs_mem>>
       ELSE /\ final_rows' = reinject_go_short(load_raw_world(raw_csv), smoothed_csv)
            /\ smoothed_rows_mem' = RowsAfterReinject(smoothed_csv, final_rows')
            /\ state_segs' = segment_states(final_rows')
            /\ machine_rows' = add_prev_next(state_segs')
            /\ segs_mem' = SegsAfterLink(state_segs', machine_rows')
            /\ planner_rows' = PlannerRows(machine_rows')
            /\ files' = files \cup WrittenByBuild(final_rows', machine_rows',
                                                  planner_rows')
            /\ pc' = "planned"
    /\ UNCHANGED <<triple, state, planner_info, raw_csv, smoothed_csv,
                   segments_csv, rows_mem, driverVars>>

BuildStateAndPlanner == Build("segmented")

Next == TemporalSmoothing \/ SegmentWorldState \/ BuildStateAndPlanner

Spec == Init /\ [][Next]_vars

(***************************************************************************)
(* The pipeline over a table of two clips whose rows are interleaved.      *)
(***************************************************************************)
Clips == {"clip1", "clip2"}

ClipTriples == {Triple("go", "none", "none"), Triple("wait", "none", "none")}

\* frame_index of row i: the steps of the rows of its clip up to row i,
\* counted from 0 or from 1
ClipFrameIndex(clip_of, steps, i) ==
    LET mine == {j \in 1..i : clip_of[j] = clip_of[i]}
        RECURSIVE Sum(_)
        Sum(S) == IF S = {} THEN 0
                  ELSE LET j == CHOOSE x \in S : TRUE
                       IN  steps[j] + Sum(S \ {j})
    IN  Sum(mine) - 1

ClipsTable(clip_of, triples, steps) ==
    [i \in 1..Len(triples) |->
        [clip |-> clip_of[i],
         frame_index |-> ClipFrameIndex(clip_of, steps, i),
         affordance |-> triples[i].affordance,
         yield_to |-> triples[i].yield_to,
         lead_state |-> triples[i].lead_state]]

InitClips ==
    /\ pc = "raw"
    /\ \E n \in 0..MaxLen :
          \E clip_of \in [1..n -> Clips], ts \in [1..n -> ClipTriples],
             steps \in [1..n -> FrameSteps] :
              raw_csv = ClipsTable(clip_of, ts, steps)
    /\ smoothed_csv = <<>>
    /\ files = {RawFile}
    /\ force = FALSE
    /\ NoOutputs

SpecClips == InitClips /\ [][Next]_vars

(***************************************************************************)
(* The stages over tables that are already in data/predictions: a raw     *)
(* table alone, or a smoothed table (without rows, or written for a frame  *)
(* list) next to a raw table that holds some of these frames.              *)
(***************************************************************************)
StageTriples ==
    {Triple("go", "none", "none"), Triple("wait", "none", "none"),
     Triple("go", "ped", "none"), Triple("wait", "ped", "none")}

\* the rows of a table at the positions kept
Keep(rows, kept) ==
    LET RECURSIVE From(_)
        From(i) == IF i > Len(rows) THEN <<>>
                   ELSE (IF i \in kept THEN <<rows[i]>> ELSE <<>>) \o From(i + 1)
    IN  From(1)

InitStages ==
    /\ \E n \in 0..MaxLen :
          \E ts \in [1..n -> StageTriples], steps \in [1..(n - 1) -> FrameSteps] :
              \/ /\ pc = "raw"
                 /\ raw_csv = RawTable("clip1", ts, steps, FALSE)
                 /\ smoothed_csv = <<>>
                 /\ files = {RawFile}
              \/ /\ pc = "smoothed"
                 /\ smoothed_csv = SmoothAll(RawTable("clip1", ts, steps, FALSE))
                 /\ \E kept \in SUBSET (1..n) :
                       raw_csv = Keep(RawTable("clip1", ts, steps, FALSE), kept)
                 /\ files = {RawFile, SmoothedFile}
    /\ force = FALSE
    /\ NoOutputs

SpecStages == InitStages /\ [][Next]_vars

(***************************************************************************)
(* OverlayHUD: overlay_world_state.py                                      *)
(***************************************************************************)
\* str.upper() on the planner_cmd tokens
Upper(s) ==
    CASE s \in {"go", "Go"}         -> "GO"
      [] s \in {"wait", "Wait"}     -> "WAIT"
      [] s \in {"stop", "Stop"}     -> "STOP"
      [] s \in {"follow", "Follow"} -> "FOLLOW"
      [] OTHER                      -> s

\* str.title() on the planner_cmd tokens
Title(s) ==
    CASE s \in {"GO", "go"}         -> "Go"
      [] s \in {"WAIT", "wait"}     -> "Wait"
      [] s \in {"STOP", "stop"}     -> "Stop"
      [] s \in {"FOLLOW", "follow"} -> "Follow"
      [] OTHER                      -> s

\* load_smoothed_preds: (clip, frame_index) -> smoothed triple; a later row
\* with the same key replaces the earlier one
load_smoothed_preds(rows) ==
    [key \in {<<rows[i].clip, rows[i].frame_index>> : i \in 1..Len(rows)} |->
        LET last == CHOOSE i \in 1..Len(rows) :
                        /\ <<rows[i].clip, rows[i].frame_index>> = key
                        /\ \A j \in (i + 1)..Len(rows) :
                              <<rows[j].clip, rows[j].frame_index>> # key
        IN  SmoothedTriple(rows[last])]

\* by_clip[clip].sort(key=lambda s: s["start"]), a stable sort
SortByStart(segs) ==
    [p \in 1..Len(segs) |->
        segs[CHOOSE i \in 1..Len(segs) :
                p = 1 + Cardinality({j \in 1..Len(segs) :
                        \/ segs[j].start < segs[i].start
                        \/ segs[j].start = segs[i].start /\ j < i})]]

\* load_segments: clip -> the rows of world_state_segments.csv of the clip,
\* sorted by start
load_segments(rows) ==
    [clip \in {rows[i].clip : i \in 1..Len(rows)} |->
        SortByStart([k \in 1..Len(RowsOfClip(rows, clip)) |->
            [segment_id |-> RowsOfClip(rows, clip)[k].segment_id,
             start |-> RowsOfClip(rows, clip)[k].start,
             end |-> RowsOfClip(rows, clip)[k].end,
             phase |-> RowsOfClip(rows, clip)[k].phase]])]

\* the intent string, as the list of its pieces
Intent(behavior, target, until) ==
    IF target # "" /\ until # ""
    THEN <<Title(behavior), "(", target, ")", " until ", until>>
    ELSE IF target # "" THEN <<Title(behavior), "(", target, ")">>
    ELSE <<Title(behavior)>>

\* the dict load_planner stores for one row of planner_commands.csv
PlannerEntry(row) ==
    LET behavior == Upper(Strip(row.planner_cmd))
    IN  [behavior |-> behavior,
         intent |-> Intent(behavior, Strip(row.target), Strip(row.until))]

\* load_planner: (clip, segment_id) -> behavior and intent; a later row with
\* the same key replaces the earlier one
load_planner(rows) ==
    [key \in {<<rows[i].clip, rows[i].segment_id>> : i \in 1..Len(rows)} |->
        LET last == CHOOSE i \in 1..Len(rows) :
                        /\ <<rows[i].clip, rows[i].segment_id>> = key
                        /\ \A j \in (i + 1)..Len(rows) :
                              <<rows[j].clip, rows[j].segment_id>> # key
        IN  PlannerEntry(rows[last])]

\* find_segment: the first segment of the clip whose range holds the frame
find_segment(clip, frame_index, segments) ==
    LET segs == IF clip \in DOMAIN segments THEN segments[clip] ELSE <<>>
        hits == {k \in 1..Len(segs) :
                    segs[k].start <= frame_index /\ frame_index <= segs[k].end}
    IN  IF hits = {} THEN <<-1, "UNKNOWN">>
        ELSE LET first == CHOOSE k \in hits : \A h \in hits : k <= h
             IN  <<segs[first].segment_id, segs[first].phase>>

\* `behavior = ""`, `intent = ""`
NoCommand == [behavior |-> "", intent |-> <<>>]

\* preds.get(key, {...: "N/A"})
NoPrediction == Triple("N/A", "N/A", "N/A")

\* `if seg_id >= 0: p = planner.get((clip_name, seg_id)); if p: ...`
CommandOf(clip, seg_id, planner) ==
    IF seg_id >= 0 /\ <<clip, seg_id>> \in DOMAIN planner
    THEN planner[<<clip, seg_id>>]
    ELSE NoCommand

\* the body of the frame loop of make_overlay_video_for_clip: the `state`
\* handed to draw_hud for one frame
HudOfFrame(clip, frame_index, preds, segments, planner) ==
    LET key == <<clip, frame_index>>
        base == IF key \in DOMAIN preds THEN preds[key] ELSE NoPrediction
        seg == find_segment(clip, frame_index, segments)
        p == CommandOf(clip, seg[1], planner)
    IN  [frame_index |-> frame_index, affordance |-> base.affordance,
         yield_to |-> base.yield_to, lead_state |-> base.lead_state,
         segment_id |-> seg[1], phase |-> seg[2],
         behavior |-> p.behavior, intent |-> p.intent]

\* make_overlay_video_for_clip over the n frame files of the clip, which
\* enumerate() numbers from 0
make_overlay_video_for_clip(clip, n, smoothed_table, segments_table, planner_table) ==
    LET preds == load_smoothed_preds(smoothed_table)
        segments == load_segments(segments_table)
        planner == load_planner(planner_table)
    IN  [idx \in 1..n |-> HudOfFrame(clip, idx - 1, preds, segments, planner)]

(***************************************************************************)
(* The driver main.py over the stages 0 to 6 for the default clip list     *)
(* ["clip1"]: a stage whose output exists is skipped unless the run is     *)
(* forced, and the first failure ends the run.                             *)
(***************************************************************************)
GlossFile == "segment_gloss.csv"
FramesDir == "frames/clip1"
OverlayFile == "clip1_overlay.mp4"

DriverTriples == {Triple("go", "none", "none"), Triple("wait", "none", "none")}

InitDriver ==
    /\ pc = "start"
    /\ \E n \in 0..MaxLen :
          \E ts \in [1..n -> DriverTriples], steps \in [1..(n - 1) -> {1}] :
              labels = RawTable("clip1", ts, steps, FALSE)
    /\ force \in BOOLEAN
    /\ frames_dir = "absent"
    /\ hud = <<>>
    /\ raw_csv = <<>>
    /\ smoothed_csv = <<>>
    /\ segments_csv = <<>>
    /\ final_rows = <<>>
    /\ state_segs = <<>>
    /\ machine_rows = <<>>
    /\ planner_rows = <<>>
    /\ files = {}
    /\ rows_mem = <<>>
    /\ smoothed_rows_mem = <<>>
    /\ segs_mem = <<>>
    /\ partial = {}
    /\ skipped = {}
    /\ triple = NoTriple
    /\ state = "-"
    /\ planner_info = NoPlan

\* extract_frames_from_video on the video of the clip: a directory that
\* holds frames is left as it is unless overwrite is set
extract_frames_from_video(dir, overwrite) ==
    IF dir # "absent" /\ ~overwrite THEN dir ELSE "fresh"

\* frames_exist_for_clip
frames_exist_for_clip == frames_dir # "absent"

\* [0] ensure_frames: `python -m src.extract_frames` is run without
\* --overwrite when the run is forced or the frames are missing, and is
\* skipped otherwise; the subprocess ends with success or with an error
EnsureFrames ==
    /\ pc = "start"
    /\ LET need_extract == force \/ ~frames_exist_for_clip
       IN  IF ~need_extract /\ ~force
           THEN /\ pc' = "frames"
                /\ skipped' = skipped \cup {FramesDir}
                /\ UNCHANGED frames_dir
           ELSE /\ \/ /\ frames_dir' = extract_frames_from_video(frames_dir, FALSE)
                      /\ pc' = "frames"
                   \/ pc' = "failed" /\ UNCHANGED frames_dir
                /\ UNCHANGED skipped
    /\ UNCHANGED <<triple, state, planner_info, raw_csv, smoothed_csv,
                   segments_csv, final_rows, state_segs, machine_rows,
                   planner_rows, files, memVars, labels, partial, force, hud>>

\* run_vlm_inference.main: VLMWorldModel() may raise before the output is
\* opened; then the output is opened, the header written, and one row is
\* written per frame after wm.infer_frame returned, which may raise at any
\* frame: the rows written before it stay in the file
RunVlmInference ==
    /\ pc = "frames"
    /\ \/ /\ pc' = "failed"
          /\ UNCHANGED <<raw_csv, files, partial>>
       \/ \E k \in 0..Len(labels) :
             /\ raw_csv' = SubSeq(labels, 1, k)
             /\ files' = files \cup {RawFile}
             /\ IF k = Len(labels)
                THEN pc' = "raw" /\ partial' = partial \ {RawFile}
                ELSE pc' = "failed" /\ partial' = partial \cup {RawFile}
    /\ UNCHANGED <<triple, state, planner_info, smoothed_csv, segments_csv,
                   final_rows, state_segs, machine_rows, planner_rows, memVars,
                   labels, skipped, force, frames_dir, hud>>

\* the outputs of the stages 1..5, in the order of the stages
StageFiles == <<RawFile, SmoothedFile, SegmentsFile, GlossFile, PlannerFile>>

\* variant: an output counts as cached only if no earlier stage of the run
\* was executed
Cached_UnlessUpstreamRan(file) ==
    /\ file \in files
    /\ ~force
    /\ \A k \in 1..Len(StageFiles) :
          (\E j \in (k + 1)..Len(StageFiles) : StageFiles[j] = file)
              => StageFiles[k] \in skipped

\* `skip = <file>.exists() and not force`
Cached(file) == file \in files /\ ~force

\* run_cmd with skip: the stage is not run and counts as succeeded
SkipStage(file, from, to) ==
    /\ pc = from
    /\ Cached(file)
    /\ pc' = to
    /\ skipped' = skipped \cup {file}
    /\ UNCHANGED <<triple, state, planner_info, raw_csv, smoothed_csv,
                   segments_csv, final_rows, state_segs, machine_rows,
                   planner_rows, files, memVars, labels, partial, force,
                   frames_dir, hud>>

\* [1] VLM inference
DriverVlm ==
    \/ SkipStage(RawFile, "frames", "raw")
    \/ ~Cached(RawFile) /\ RunVlmInference

\* [2] temporal smoothing
DriverSmoothing ==
    \/ SkipStage(SmoothedFile, "raw", "smoothed")
    \/ ~Cached(SmoothedFile) /\ TemporalSmoothing

\* variant: the segmentation is tested for its cache before the smoothing
DriverSegment_BeforeSmoothing ==
    \/ SkipStage(SegmentsFile, "raw", "segmented")
    \/ ~Cached(SegmentsFile) /\ SegmentWorldState

\* [3] segment world state
DriverSegment ==
    \/ SkipStage(SegmentsFile, "smoothed", "segmented")
    \/ ~Cached(SegmentsFile) /\ SegmentWorldState

\* [4] segment gloss: the stage is a subprocess that ends with success,
\* having written segment_gloss.csv, or with an error
DriverGloss ==
    \/ SkipStage(GlossFile, "segmented", "glossed")
    \/ /\ pc = "segmented"
       /\ ~Cached(GlossFile)
       /\ \/ pc' = "glossed" /\ files' = files \cup {GlossFile}
          \/ pc' = "failed" /\ UNCHANGED files
       /\ UNCHANGED <<triple, state, planner_info, raw_csv, smoothed_csv,
                      segments_csv, final_rows, state_segs, machine_rows,
                      planner_rows, memVars, driverVars>>

\* [5] state machine and planner commands
DriverBuild ==
    \/ SkipStage(PlannerFile, "glossed", "planned")
    \/ ~Cached(PlannerFile) /\ Build("glossed")

\* the four tables [6] loads before its loop over the clips
OverlayInputs == {SmoothedFile, SegmentsFile, GlossFile, PlannerFile}

\* [6] overlay video of the clip: a load of a missing table raises and ends
\* the run; an existing video is kept unless the run is forced; otherwise
\* make_overlay_video_for_clip writes the video, or raises (as
\* collect_frame_paths does when the clip has no frames), and the run then
\* ends with sys.exit(1)
DriverOverlay ==
    /\ pc = "planned"
    /\ IF ~(OverlayInputs \subseteq files)
       THEN pc' = "failed" /\ UNCHANGED <<hud, files, skipped>>
       ELSE IF Cached(OverlayFile)
       THEN /\ pc' = "done"
            /\ skipped' = skipped \cup {OverlayFile}
            /\ UNCHANGED <<hud, files>>
       ELSE /\ \/ /\ Len(labels) > 0
                  /\ hud' = make_overlay_video_for_clip("clip1", Len(labels),
                                    smoothed_csv, segments_csv, planner_rows)
                  /\ files' = files \cup {OverlayFile}
                  /\ pc' = "done"
               \/ pc' = "failed" /\ UNCHANGED <<hud, files>>
            /\ UNCHANGED skipped
    /\ UNCHANGED <<triple, state, planner_info, raw_csv, smoothed_csv,
                   segments_csv, final_rows, state_segs, machine_rows,
                   planner_rows, memVars, labels, partial, force, frames_dir>>

\* main.py is started again after a run has ended (sys.exit(1) of a failed
\* stage, or the end of the run), with or without --force
Rerun ==
    /\ pc \in {"failed", "done"}
    /\ pc' = "start"
    /\ skipped' = {}
    /\ force' \in BOOLEAN
    /\ UNCHANGED <<triple, state, planner_info, raw_csv, smoothed_csv,
                   segments_csv, final_rows, state_segs, machine_rows,
                   planner_rows, files, memVars, labels, partial, frames_dir,
                   hud>>

\* before a run the video of the clip in data/raw_videos is replaced: the
\* frames on disk are those of the video as it was
ReplaceVideo ==
    /\ pc = "start"
    /\ frames_dir = "fresh"
    /\ frames_dir' = "stale"
    /\ UNCHANGED <<pc, triple, state, planner_info, raw_csv, smoothed_csv,
                   segments_csv, final_rows, state_segs, machine_rows,
                   planner_rows, files, memVars, labels, partial, skipped,
                   force, hud>>

\* before a run world_state_claude.csv is deleted, so that the inference is
\* computed again
DeleteArtifact ==
    /\ pc = "start"
    /\ RawFile \in files
    /\ files' = files \ {RawFile}
    /\ partial' = partial \ {RawFile}
    /\ raw_csv' = <<>>
    /\ UNCHANGED <<pc, triple, state, planner_info, smoothed_csv, segments_csv,
                   final_rows, state_segs, machine_rows, planner_rows, memVars,
                   labels, skipped, force, frames_dir, hud>>

NextDriver ==
    \/ EnsureFrames
    \/ DriverVlm
    \/ DriverSmoothing
    \/ DriverSegment
    \/ DriverGloss
    \/ DriverBuild
    \/ DriverOverlay
    \/ Rerun
    \/ ReplaceVideo
    \/ DeleteArtifact

SpecDriver == InitDriver /\ [][NextDriver]_vars

(***************************************************************************)
(* Properties of the classifier and of the planner table (SpecClassify).   *)
(***************************************************************************)
\* the rule list of the classifier contract, in priority order
ClassifierRules(a, y, l) ==
    << <<y = "ped", IF a = "stop" THEN "STOP_PED" ELSE "YIELD_PED">>,
       <<y = "lead" /\ l = "stopped",
         IF a = "stop" THEN "STOP_LEAD" ELSE "FOLLOW_QUEUE">>,
       <<y = "lead" /\ l # "stopped",
         IF a = "go" THEN "GO_FOLLOW" ELSE "FOLLOW_QUEUE">>,
       <<a = "go" /\ y = "none", IF l \in {"none", ""} THEN "GO_FREE" ELSE "GO">>,
       <<a = "wait" /\ y = "none", "NEGOTIATE">>,
       <<TRUE, "UNKNOWN">> >>

FirstMatch(rules) ==
    rules[CHOOSE i \in 1..Len(rules) :
             rules[i][1] /\ \A j \in 1..(i - 1) : ~rules[j][1]][2]

\* C1: for every triple over the declared enum domains, map_world_to_state
\* returns the state of the first matching rule of the priority list
\* (ped; lead stopped; lead not stopped; go/none; wait/none; UNKNOWN).
C1_FirstMatchingRule ==
    (pc \in {"state", "planner"} /\ EnumTriple(triple)) =>
        state = FirstMatch(ClassifierRules(triple.affordance, triple.yield_to,
                                           triple.lead_state))

C1_Witness ==
    /\ pc = "state"
    /\ triple = Triple("wait", "lead", "moving")
    /\ state = "FOLLOW_QUEUE"

\* the planner table of the contract; a state without a row takes the last
PlannerTable ==
    [FOLLOW_QUEUE |-> <<"FOLLOW", "traffic_queue", "lead", "lead_moves">>,
     GO_FOLLOW |-> <<"GO", "lead_moving", "lead", "constraint_reappears">>,
     GO_FREE |-> <<"GO", "corridor_clear", "", "constraint_reappears">>,
     GO |-> <<"GO", "corridor_clear", "", "constraint_reappears">>,
     YIELD_PED |-> <<"WAIT", "pedestrian_in_path", "ped", "ped_clears">>,
     STOP_PED |-> <<"STOP", "pedestrian_blocking", "ped", "ped_clears">>,
     STOP_LEAD |-> <<"STOP", "lead_vehicle_stopped", "lead", "lead_moves">>,
     NEGOTIATE |-> <<"WAIT", "negotiating_gap", "", "scene_resolves">>]

TableRow(s) ==
    IF s \in DOMAIN PlannerTable THEN PlannerTable[s]
    ELSE <<"WAIT", "unknown_state", "", "state_resolved">>

RowOf(info) == <<info.planner_cmd, info.reason, info.target, info.until>>

\* C2: map_state_to_planner returns exactly the table row of the state, the
\* last row for every state without a row of its own; (stop, ped, none) is
\* classified STOP_PED and planned (STOP, pedestrian_blocking, ped, ped_clears).
C2_PlannerTableRow ==
    pc = "planner" =>
        /\ RowOf(planner_info) = TableRow(state)
        /\ triple = Triple("stop", "ped", "none") =>
              /\ state = "STOP_PED"
              /\ RowOf(planner_info) =
                    <<"STOP", "pedestrian_blocking", "ped", "ped_clears">>

C2_Witness ==
    /\ pc = "planner"
    /\ triple = Triple("stop", "ped", "none")
    /\ planner_info.planner_cmd = "STOP"

NineStates ==
    {"FOLLOW_QUEUE", "GO_FOLLOW", "GO_FREE", "GO", "YIELD_PED", "STOP_PED",
     "STOP_LEAD", "NEGOTIATE", "UNKNOWN"}

\* C3: over the full enum domain product the classifier returns one of the
\* nine states of the planner table, the planner record has its four fields,
\* planner_cmd in {FOLLOW, GO, WAIT, STOP} and target in {"", lead, ped}, and
\* the catch-all row is reached only for UNKNOWN.
C3_Exhaustive ==
    (pc \in {"state", "planner"} /\ EnumTriple(triple)) =>
        /\ state \in NineStates
        /\ pc = "planner" =>
              /\ DOMAIN planner_info = {"planner_cmd", "reason", "target", "until"}
              /\ planner_info.planner_cmd \in {"FOLLOW", "GO", "WAIT", "STOP"}
              /\ planner_info.target \in {"", "lead", "ped"}
              /\ planner_info.reason = "unknown_state" => state = "UNKNOWN"

C3_Witness ==
    /\ pc = "planner"
    /\ triple = Triple("stop", "none", "moving")
    /\ state = "UNKNOWN"
    /\ planner_info.reason = "unknown_state"

(***************************************************************************)
(* Properties of the pipeline (Spec).                                      *)
(***************************************************************************)
ClipsOf(rows) == {rows[i].clip : i \in 1..Len(rows)}

\* the raw record of a frame: the row of the raw table with the frame's clip
\* and frame_index (the last such row of the table)
RawRecordOf(r) ==
    LET last == CHOOSE i \in 1..Len(raw_csv) :
                   /\ raw_csv[i].clip = r.clip
                   /\ raw_csv[i].frame_index = r.frame_index
                   /\ \A j \in (i + 1)..Len(raw_csv) :
                         ~(raw_csv[j].clip = r.clip
                           /\ raw_csv[j].frame_index = r.frame_index)
    IN  RawTriple(raw_csv[last])

ReinjectionCase(raw, sm) ==
    /\ raw.affordance = "go"
    /\ sm.affordance # "go"
    /\ sm.yield_to # "ped"
    /\ raw.yield_to # "ped"

\* C4: for every frame the final triple is the whole raw triple when
\* raw.affordance = go, smoothed.affordance # go, smoothed.yield_to # ped and
\* raw.yield_to # ped, and the whole smoothed triple otherwise; it never
\* mixes fields of the two.
C4_FinalIsRawOrSmoothed ==
    pc = "planned" =>
        /\ Len(final_rows) = Len(smoothed_csv)
        /\ \A i \in 1..Len(final_rows) :
              LET r == final_rows[i]
                  raw == RawRecordOf(r)
                  sm == SmoothedTriple(smoothed_csv[i])
              IN  /\ r.clip = smoothed_csv[i].clip
                  /\ r.frame_index = smoothed_csv[i].frame_index
                  /\ SmoothedTriple(r) = sm
                  /\ FinalTriple(r) = IF ReinjectionCase(raw, sm) THEN raw ELSE sm

\* a frame whose GO is re-injected and whose raw triple differs from the
\* smoothed one in all three fields
C4_Witness ==
    /\ pc = "planned"
    /\ \E i \in 1..Len(final_rows) :
          LET r == final_rows[i]
          IN  /\ ReinjectionCase(RawRecordOf(r), SmoothedTriple(r))
              /\ FinalTriple(r) = Triple("go", "none", "none")
              /\ SmoothedTriple(r) = Triple("wait", "lead", "moving")

\* C5: pedestrian dominance: on a frame with yield_to = ped in the raw or in
\* the smoothed view the re-injection does not fire: the final triple is the
\* smoothed triple, never a replacement whose yield_to is not ped.
C5_PedestrianDominance ==
    pc = "planned" =>
        \A i \in 1..Len(final_rows) :
            LET r == final_rows[i]
            IN  (RawRecordOf(r).yield_to = "ped" \/ r.yield_to_smoothed = "ped") =>
                    FinalTriple(r) = SmoothedTriple(r)

\* a frame whose raw view has go and ped while the smoothed view has neither
C5_Witness ==
    /\ pc = "planned"
    /\ \E i \in 1..Len(final_rows) :
          LET r == final_rows[i]
          IN  /\ RawRecordOf(r) = Triple("go", "ped", "none")
              /\ r.affordance_smoothed = "wait"
              /\ r.yield_to_smoothed = "none"
              /\ FinalTriple(r) = SmoothedTriple(r)

Attributes == {"affordance", "yield_to", "lead_state"}

SmoothedField(attr) ==
    CASE attr = "affordance" -> "affordance_smoothed"
      [] attr = "yield_to"   -> "yield_to_smoothed"
      [] attr = "lead_state" -> "lead_state_smoothed"

\* the frame list of a clip and the smoothed rows written for it
FramesOf(c) == SortByFrameIndex(RowsOfClip(raw_csv, c))
SmoothedOf(c) == RowsOfClip(smoothed_csv, c)

\* positions max(0, i - W/2) .. min(n - 1, i + W/2) of the claim, counted from 1
WindowOf(n, i, w) ==
    {j \in 1..n : j >= i - (w \div 2) /\ j <= i + (w \div 2)}

Freq(frames, P, attr, v) == Cardinality({j \in P : frames[j][attr] = v})

NonEmptyIn(frames, P, attr) == {frames[j][attr] : j \in P} \ {""}

FirstIn(frames, P, attr, v) ==
    CHOOSE j \in P : frames[j][attr] = v
                     /\ \A k \in P : frames[k][attr] = v => j <= k

\* C6: per position i and per attribute, the smoothed value is a value of
\* highest frequency among the non-empty values of the window
\* max(0, i - W/2) .. min(n - 1, i + W/2), with W = 3.
C6_WindowMajority ==
    pc = "smoothed" =>
        /\ Window = 3
        /\ \A c \in ClipsOf(raw_csv) :
              \A frames \in {FramesOf(c)}, sm \in {SmoothedOf(c)} :
                  /\ Len(sm) = Len(frames)
                  /\ \A i \in 1..Len(frames), attr \in Attributes :
                        \A P \in {WindowOf(Len(frames), i, 3)} :
                            \A present \in {NonEmptyIn(frames, P, attr)} :
                                present # {} =>
                                   /\ sm[i][SmoothedField(attr)] \in present
                                   /\ \A u \in present :
                                         Freq(frames, P, attr, sm[i][SmoothedField(attr)])
                                            >= Freq(frames, P, attr, u)

\* a full window of three frames whose majority differs from the centre value
C6_Witness ==
    /\ pc = "smoothed"
    /\ Len(smoothed_csv) = 3
    /\ smoothed_csv[1].affordance = "wait"
    /\ smoothed_csv[2].affordance = "go"
    /\ smoothed_csv[3].affordance = "wait"
    /\ smoothed_csv[2].affordance_smoothed = "wait"

\* the values of an attribute in the window of position i, in window order
WindowValues(frames, i, attr) ==
    LET P == WindowOf(Len(frames), i, 3)
        lo == CHOOSE j \in P : \A k \in P : j <= k
    IN  [j \in 1..Cardinality(P) |-> frames[lo + j - 1][attr]]

\* the <<window values, smoothed value>> pairs of a clip
WindowResults(frames, sm) ==
    {<<WindowValues(frames, i, attr), sm[i][SmoothedField(attr)]>> :
        i \in 1..Len(frames), attr \in Attributes}

\* C7: among the non-empty values of highest frequency in a window the one
\* occurring first in window order is returned, and the result depends on
\* the ordered window contents only.
C7_TieFirstOccurrence ==
    pc = "smoothed" =>
        \A c \in ClipsOf(raw_csv) :
            \A frames \in {FramesOf(c)}, sm \in {SmoothedOf(c)} :
                /\ \A i \in 1..Len(frames), attr \in Attributes :
                      \A P \in {WindowOf(Len(frames), i, 3)},
                         v \in {sm[i][SmoothedField(attr)]} :
                          \A u \in NonEmptyIn(frames, P, attr) \ {v} :
                              Freq(frames, P, attr, u) = Freq(frames, P, attr, v) =>
                                 FirstIn(frames, P, attr, v) < FirstIn(frames, P, attr, u)
                /\ \A x, y \in WindowResults(frames, sm) : x[1] = y[1] => x[2] = y[2]

\* a full window of three different affordances, the first of them returned
\* although it is not the centre value
C7_Witness ==
    /\ pc = "smoothed"
    /\ Len(smoothed_csv) = 3
    /\ smoothed_csv[1].affordance = "stop"
    /\ smoothed_csv[2].affordance = "go"
    /\ smoothed_csv[3].affordance = "wait"
    /\ smoothed_csv[2].affordance_smoothed = "stop"

\* C8: a smoothed value is empty only if every window value is empty; when
\* all window values are empty it is the raw value of the centre frame; a
\* non-empty smoothed value is one of the raw values in the window.
C8_NeverInventsNeverDrops ==
    pc = "smoothed" =>
        \A c \in ClipsOf(raw_csv) :
            \A frames \in {FramesOf(c)}, sm \in {SmoothedOf(c)} :
                \A i \in 1..Len(frames), attr \in Attributes :
                    \A seen \in {{frames[j][attr] : j \in WindowOf(Len(frames), i, 3)}},
                       v \in {sm[i][SmoothedField(attr)]} :
                        /\ v = "" => seen = {""}
                        /\ seen = {""} => v = frames[i][attr]
                        /\ v # "" => v \in seen

\* one frame with an all-empty window next to an empty frame that takes the
\* label of its neighbour
C8_Witness ==
    /\ pc = "smoothed"
    /\ Len(smoothed_csv) = 3
    /\ smoothed_csv[1].affordance = ""
    /\ smoothed_csv[2].affordance = ""
    /\ smoothed_csv[3].affordance = "go"
    /\ smoothed_csv[1].affordance_smoothed = ""
    /\ smoothed_csv[2].affordance_smoothed = "go"

\* positions of a frame list at which a run starts: the first one, and every
\* one whose key differs from its predecessor's or whose frame_index is not
\* the predecessor's plus one
RunStarts(keys, fis) ==
    {j \in 1..Len(keys) :
        j = 1 \/ keys[j] # keys[j - 1] \/ fis[j] # fis[j - 1] + 1}

\* the k-th smallest element of a set of positions
Kth(S, k) == CHOOSE j \in S : Cardinality({x \in S : x < j}) = k - 1

\* the last position of the run that starts at position j
RunEnd(S, j, n) ==
    IF \E x \in S : x > j
    THEN (CHOOSE x \in S : x > j /\ \A z \in S : z > j => x <= z) - 1
    ELSE n

\* the <<start, end>> ranges the contract prescribes for a frame list
RunRanges(keys, fis) ==
    LET S == RunStarts(keys, fis)
    IN  [k \in 1..Cardinality(S) |->
            <<fis[Kth(S, k)], fis[RunEnd(S, Kth(S, k), Len(keys))]>>]

\* the input of each segmenter for a clip, in frame_index order
PhaseInput(c) == SortByFrameIndex(RowsOfClip(smoothed_csv, c))
StateInput(c) == SortByFrameIndex(RowsOfClip(final_rows, c))

FrameIndices(rows) == [j \in 1..Len(rows) |-> rows[j].frame_index]
PhaseKeys(rows) == [j \in 1..Len(rows) |-> SmoothedTriple(rows[j])]
StateKeys(rows) ==
    [j \in 1..Len(rows) |->
        map_world_to_state(rows[j].affordance_final, rows[j].yield_to_final,
                           rows[j].lead_state_final)]

PhaseRanges(c) ==
    LET segs == RowsOfClip(segments_csv, c)
    IN  [k \in 1..Len(segs) |-> <<segs[k].start, segs[k].end>>]
StateRanges(c) ==
    LET segs == RowsOfClip(state_segs, c)
    IN  [k \in 1..Len(segs) |-> <<segs[k].start_frame, segs[k].end_frame>>]

\* C9: both segmenters extend the current segment by a frame iff its key
\* equals the segment's key and its frame_index is the current end + 1; a
\* key change or a frame_index gap starts a new segment (two frames of equal
\* triple with a missing frame between them give two segments).
C9_RunsOfKeyAndContiguity ==
    pc = "planned" =>
        \A c \in ClipsOf(smoothed_csv) :
            /\ PhaseRanges(c) = RunRanges(PhaseKeys(PhaseInput(c)),
                                          FrameIndices(PhaseInput(c)))
            /\ StateRanges(c) = RunRanges(StateKeys(StateInput(c)),
                                          FrameIndices(StateInput(c)))

\* two frames with the same triple and the frame between them missing
C9_Witness ==
    /\ pc = "planned"
    /\ Len(final_rows) = 2
    /\ final_rows[1].frame_index + 2 = final_rows[2].frame_index
    /\ SmoothedTriple(final_rows[1]) = SmoothedTriple(final_rows[2])
    /\ FinalTriple(final_rows[1]) = FinalTriple(final_rows[2])
    /\ Len(segments_csv) = 2
    /\ segments_csv[1].end = final_rows[1].frame_index
    /\ segments_csv[2].start = final_rows[2].frame_index
    /\ Len(state_segs) = 2
    /\ state_segs[1].end_frame = final_rows[1].frame_index
    /\ state_segs[2].start_frame = final_rows[2].frame_index

\* how many ranges cover a frame index, how many rows carry it
Covering(ranges, v) ==
    Cardinality({k \in 1..Len(ranges) : ranges[k][1] <= v /\ v <= ranges[k][2]})
Carrying(rows, v) ==
    Cardinality({j \in 1..Len(rows) : rows[j].frame_index = v})

IndicesOf(ranges, rows) ==
    UNION {ranges[k][1]..ranges[k][2] : k \in 1..Len(ranges)}
        \cup {rows[j].frame_index : j \in 1..Len(rows)}

Reconstructs(ranges, rows) ==
    /\ \A k \in 1..Len(ranges) : ranges[k][1] <= ranges[k][2]
    /\ \A v \in IndicesOf(ranges, rows) : Covering(ranges, v) = Carrying(rows, v)

\* C10: for both segmentations the segment ranges of a clip, expanded to
\* frame indices, are exactly the multiset of frame_index values of the
\* clip's input rows, and every segment has start <= end.
C10_RangesReconstructFrames ==
    pc = "planned" =>
        \A c \in ClipsOf(smoothed_csv) \cup ClipsOf(segments_csv)
                    \cup ClipsOf(state_segs) :
            /\ Reconstructs(PhaseRanges(c), RowsOfClip(smoothed_csv, c))
            /\ Reconstructs(StateRanges(c), RowsOfClip(final_rows, c))

\* a clip with a missing frame_index and segments of two frames
C10_Witness ==
    /\ pc = "planned"
    /\ \E i \in 1..Len(final_rows) :
          /\ final_rows[i].frame_index > 1
          /\ \A j \in 1..Len(final_rows) :
                final_rows[j].frame_index # final_rows[i].frame_index - 1
    /\ \E i \in 1..Len(state_segs) :
          state_segs[i].start_frame < state_segs[i].end_frame
    /\ \E i \in 1..Len(segments_csv) : segments_csv[i].start < segments_csv[i].end

(***************************************************************************)
(* Canonical triples and member frames of the segments (Spec).             *)
(***************************************************************************)
\* the rows of a table that a segment of clip c with range lo..hi covers
Members(rows, c, lo, hi) ==
    SelectSeq(rows, LAMBDA r : r.clip = c /\ lo <= r.frame_index
                                /\ r.frame_index <= hi)

\* the canonical triple a segment record carries
Canonical(seg) == Triple(seg.affordance, seg.yield_to, seg.lead_state)

StateOf(t) == map_world_to_state(t.affordance, t.yield_to, t.lead_state)

\* C12: every segment carries the triple of its first frame; all member
\* frames of a phase segment have that smoothed triple; the final triple of
\* every member frame of a state segment is classified to the segment's
\* state (member triples of a state segment may differ from the canonical one).
C12_CanonicalIsFirstFrame ==
    pc = "planned" =>
        /\ \A k \in 1..Len(segments_csv) :
              \A seg \in {segments_csv[k]} :
                  \A ms \in {Members(smoothed_csv, seg.clip, seg.start, seg.end)} :
                      /\ \E j \in 1..Len(ms) :
                            /\ ms[j].frame_index = seg.start
                            /\ SmoothedTriple(ms[j]) = Canonical(seg)
                      /\ \A j \in 1..Len(ms) : SmoothedTriple(ms[j]) = Canonical(seg)
        /\ \A k \in 1..Len(state_segs) :
              \A seg \in {state_segs[k]} :
                  \A ms \in {Members(final_rows, seg.clip, seg.start_frame,
                                     seg.end_frame)} :
                      /\ \E j \in 1..Len(ms) :
                            /\ ms[j].frame_index = seg.start_frame
                            /\ FinalTriple(ms[j]) = Canonical(seg)
                      /\ \A j \in 1..Len(ms) : StateOf(FinalTriple(ms[j])) = seg.state

\* a state segment with a member frame whose final triple is not the
\* canonical one, and a phase segment of more than one frame
C12_Witness ==
    /\ pc = "planned"
    /\ \E k \in 1..Len(state_segs) :
          \E j \in 1..Len(final_rows) :
              /\ final_rows[j].clip = state_segs[k].clip
              /\ state_segs[k].start_frame < final_rows[j].frame_index
              /\ final_rows[j].frame_index <= state_segs[k].end_frame
              /\ FinalTriple(final_rows[j]) # Canonical(state_segs[k])
    /\ \E k \in 1..Len(segments_csv) : segments_csv[k].start < segments_csv[k].end

(***************************************************************************)
(* Re-segmenting the frames that the segments cover (SpecStages).          *)
(***************************************************************************)
\* one frame per frame_index of every phase segment, with the segment's
\* canonical triple as its smoothed triple
ExpandPhase(segs) ==
    Concat([k \in 1..Len(segs) |->
               [j \in 1..(segs[k].end - segs[k].start + 1) |->
                   [clip |-> segs[k].clip,
                    frame_index |-> segs[k].start + j - 1,
                    affordance_smoothed |-> segs[k].affordance,
                    yield_to_smoothed |-> segs[k].yield_to,
                    lead_state_smoothed |-> segs[k].lead_state]]])

\* the same for the state segments, the canonical triple as final triple
ExpandState(segs) ==
    Concat([k \in 1..Len(segs) |->
               [j \in 1..(segs[k].end_frame - segs[k].start_frame + 1) |->
                   [clip |-> segs[k].clip,
                    frame_index |-> segs[k].start_frame + j - 1,
                    affordance_final |-> segs[k].affordance,
                    yield_to_final |-> segs[k].yield_to,
                    lead_state_final |-> segs[k].lead_state]]])

\* C17: segmentation is idempotent: the segments expanded to one frame per
\* covered frame_index, each with its segment's canonical triple, and
\* segmented again give the same list of segments (segment_id, start, end,
\* triple and state), for the phase and for the state segmentation.
C17_SegmentationIdempotent ==
    /\ pc \in {"segmented", "planned"} =>
          SegmentAll(ExpandPhase(segments_csv)) = segments_csv
    /\ pc = "planned" =>
          segment_states(ExpandState(state_segs)) = state_segs

\* several segments, one of them a state segment of three frames whose
\* members do not all carry the canonical triple
C17_Witness ==
    /\ pc = "planned"
    /\ Len(segments_csv) > 1
    /\ \E k \in 1..Len(state_segs) :
          /\ state_segs[k].start_frame + 1 < state_segs[k].end_frame
          /\ \E j \in 1..Len(final_rows) :
                /\ state_segs[k].start_frame < final_rows[j].frame_index
                /\ final_rows[j].frame_index <= state_segs[k].end_frame
                /\ FinalTriple(final_rows[j]) # Canonical(state_segs[k])

(***************************************************************************)
(* A single GO between two WAIT frames (Spec).                             *)
(***************************************************************************)
GoFree == Triple("go", "none", "none")
WaitFree == Triple("wait", "none", "none")

\* positions of a frame list that are not at its boundary, hold GoFree and
\* have WaitFree on both sides
LoneGo(frames) ==
    {i \in 2..(Len(frames) - 1) :
        /\ RawTriple(frames[i]) = GoFree
        /\ RawTriple(frames[i - 1]) = WaitFree
        /\ RawTriple(frames[i + 1]) = WaitFree}

\* C18: at a non-boundary frame whose raw triple is (go, none, none) and
\* whose two neighbours have raw triple (wait, none, none), window-3
\* smoothing yields (wait, none, none) and reinject_go_short restores the
\* final triple (go, none, none).
C18_LoneGoRestored ==
    pc = "planned" =>
        \A c \in ClipsOf(raw_csv) :
            \A frames \in {FramesOf(c)}, sm \in {SmoothedOf(c)},
               final \in {StateInput(c)} :
                \A i \in LoneGo(frames) :
                    /\ sm[i].frame_index = frames[i].frame_index
                    /\ SmoothedTriple(sm[i]) = WaitFree
                    /\ final[i].frame_index = frames[i].frame_index
                    /\ FinalTriple(final[i]) = GoFree

\* wait, go, wait: the go is smoothed away and is back in the final triple
C18_Witness ==
    /\ pc = "planned"
    /\ LoneGo(FramesOf("clip1")) = {2}
    /\ SmoothedTriple(final_rows[2]) = WaitFree
    /\ FinalTriple(final_rows[2]) = GoFree
    /\ final_rows[1].frame_index < final_rows[2].frame_index

(***************************************************************************)
(* Frames without a raw record (SpecStages).                               *)
(***************************************************************************)
HasRawRecord(r) ==
    \E i \in 1..Len(raw_csv) :
        raw_csv[i].clip = r.clip /\ raw_csv[i].frame_index = r.frame_index

\* C14: a frame of the smoothed table without a raw record for its
\* (clip, frame_index) gets its smoothed triple as final triple, the stage
\* does not fail on it, and the frames that have a raw record get the
\* triple the re-injection rule gives them.
C14_LookupMissKeepsSmoothed ==
    /\ pc = "failed" => SmoothedFile \notin files
    /\ pc = "planned" =>
          /\ Len(final_rows) = Len(smoothed_csv)
          /\ \A i \in 1..Len(final_rows) :
                \A r \in {final_rows[i]}, sm \in {SmoothedTriple(smoothed_csv[i])} :
                    /\ r.clip = smoothed_csv[i].clip
                    /\ r.frame_index = smoothed_csv[i].frame_index
                    /\ FinalTriple(r) =
                          IF HasRawRecord(r) /\ ReinjectionCase(RawRecordOf(r), sm)
                          THEN RawRecordOf(r) ELSE sm

\* a table with a frame that has no raw record next to a frame whose raw GO
\* is re-injected
C14_Witness ==
    /\ pc = "planned"
    /\ \E i, j \in 1..Len(final_rows) :
          /\ ~HasRawRecord(final_rows[i])
          /\ FinalTriple(final_rows[i]) = SmoothedTriple(final_rows[i])
          /\ HasRawRecord(final_rows[j])
          /\ FinalTriple(final_rows[j]) = RawRecordOf(final_rows[j])
          /\ FinalTriple(final_rows[j]) # SmoothedTriple(final_rows[j])

(***************************************************************************)
(* The records a stage was handed, after the stage (Spec).                 *)
(***************************************************************************)
FinalFields == {"affordance_final", "yield_to_final", "lead_state_final"}

\* C15: no stage changes a record of an earlier stage in place: the rows
\* handed to smooth_sequence are as they were read, the smoothed rows handed
\* to reinject_go_short have no *_final fields after it returned, and the
\* segment records returned by segment_states are unchanged after
\* add_prev_next returned.
C15_EarlierRecordsUntouched ==
    /\ pc \in {"smoothed", "segmented", "planned"} => rows_mem = raw_csv
    /\ pc = "planned" =>
          /\ \A i \in 1..Len(smoothed_rows_mem) :
                DOMAIN smoothed_rows_mem[i] \cap FinalFields = {}
          /\ smoothed_rows_mem = smoothed_csv
          /\ segs_mem = state_segs

(***************************************************************************)
(* Tables of several clips (SpecClips).                                    *)
(***************************************************************************)
\* ids 0, 1, .. in list order, and starts that grow with the id
NumberedFromZero(ids, starts) ==
    /\ \A k \in 1..Len(ids) : ids[k] = k - 1
    /\ \A k \in 2..Len(ids) : starts[k - 1] < starts[k]

\* C11: for every clip with n segments the segment_id values are 0..n-1,
\* each used once, in emission order, starting again at 0 for each clip, and
\* the segments in segment_id order are in start_frame order; for the phase
\* segments and for the state-machine segments, whatever clips the input has
\* and in whatever order.
C11_SegmentIdsPerClip ==
    /\ pc \in {"segmented", "planned"} =>
          \A c \in ClipsOf(segments_csv) :
              \A segs \in {RowsOfClip(segments_csv, c)} :
                  NumberedFromZero(Column(segs, "segment_id"), Column(segs, "start"))
    /\ pc = "planned" =>
          \A c \in ClipsOf(state_segs) \cup ClipsOf(planner_rows) :
              \A segs \in {RowsOfClip(state_segs, c), RowsOfClip(machine_rows, c),
                           RowsOfClip(planner_rows, c)} :
                  NumberedFromZero(Column(segs, "segment_id"),
                                   Column(segs, "start_frame"))

\* rows of two clips interleaved in the input, the clip that comes first with
\* two segments, the other one numbered from 0 again
C11_Witness ==
    /\ pc = "planned"
    /\ Len(raw_csv) = 3
    /\ raw_csv[1].clip = raw_csv[3].clip
    /\ raw_csv[1].clip # raw_csv[2].clip
    /\ Len(state_segs) = 3
    /\ Column(state_segs, "segment_id") = <<0, 1, 0>>
    /\ Column(segments_csv, "segment_id") = <<0, 1, 0>>
    /\ state_segs[3].clip = raw_csv[2].clip

\* the fields of a segment record that segment_states sets
Unlinked(seg) ==
    [clip |-> seg.clip, segment_id |-> seg.segment_id,
     start_frame |-> seg.start_frame, end_frame |-> seg.end_frame,
     state |-> seg.state, affordance |-> seg.affordance,
     yield_to |-> seg.yield_to, lead_state |-> seg.lead_state]

\* the state of the segment of a clip with a given id, "" if there is none
StateAt(segs, c, id) ==
    IF \E j \in 1..Len(segs) : segs[j].clip = c /\ segs[j].segment_id = id
    THEN segs[CHOOSE j \in 1..Len(segs) :
                  segs[j].clip = c /\ segs[j].segment_id = id].state
    ELSE ""

\* C13: add_prev_next gives every state segment the state of the segment of
\* the same clip with segment_id - 1 as prev_state ("" for the first) and
\* that of segment_id + 1 as next_state ("" for the last), never of another
\* clip, and keeps the number of segments and each segment's clip,
\* segment_id, start_frame, end_frame, state and canonical triple.
C13_LinksWithinClip ==
    pc = "planned" =>
        /\ Len(machine_rows) = Len(state_segs)
        /\ \A i \in 1..Len(machine_rows) :
              \A seg \in {machine_rows[i]} :
                  /\ Unlinked(seg) = state_segs[i]
                  /\ seg.prev_state = StateAt(state_segs, seg.clip, seg.segment_id - 1)
                  /\ seg.next_state = StateAt(state_segs, seg.clip, seg.segment_id + 1)

\* two segments of one clip linked to each other, followed in the list by
\* the only segment of another clip, which has no links
C13_Witness ==
    /\ pc = "planned"
    /\ Len(machine_rows) = 3
    /\ machine_rows[1].clip = machine_rows[2].clip
    /\ machine_rows[1].prev_state = ""
    /\ machine_rows[1].next_state = machine_rows[2].state
    /\ machine_rows[2].prev_state = machine_rows[1].state
    /\ machine_rows[2].prev_state # ""
    /\ machine_rows[2].next_state = ""
    /\ machine_rows[3].clip # machine_rows[2].clip
    /\ machine_rows[3].prev_state = ""
    /\ machine_rows[3].next_state = ""

\* C16: per-clip independence: the records every stage puts out for a clip
\* are the records the stage puts out when it is given the rows of that clip
\* alone, whatever rows of other clips the input holds and however the rows
\* of the clips are interleaved.
C16_PerClipIndependence ==
    \A c \in ClipsOf(raw_csv) :
        \A raw \in {RowsOfClip(raw_csv, c)}, sm \in {RowsOfClip(smoothed_csv, c)} :
            /\ pc \in {"smoothed", "segmented", "planned"} => sm = SmoothAll(raw)
            /\ pc \in {"segmented", "planned"} =>
                  RowsOfClip(segments_csv, c) = SegmentAll(sm)
            /\ pc = "planned" =>
                  \A final \in {RowsOfClip(final_rows, c)},
                     segs \in {RowsOfClip(state_segs, c)},
                     linked \in {RowsOfClip(machine_rows, c)} :
                      /\ final = reinject_go_short(load_raw_world(raw), sm)
                      /\ segs = segment_states(final)
                      /\ linked = add_prev_next(segs)
                      /\ RowsOfClip(planner_rows, c) = PlannerRows(linked)

\* the rows of two clips alternate in the input, and the frame between the
\* two frames of the first clip carries another label than they do
C16_Witness ==
    /\ pc = "planned"
    /\ Len(raw_csv) = 3
    /\ raw_csv[1].clip = raw_csv[3].clip
    /\ raw_csv[1].clip # raw_csv[2].clip
    /\ raw_csv[1].affordance = raw_csv[3].affordance
    /\ raw_csv[1].affordance # raw_csv[2].affordance
    /\ Len(planner_rows) = 2

(***************************************************************************)
(* Stages started on a table without rows (SpecStages).                    *)
(***************************************************************************)
\* the stage that runs next reads a table that has no rows
EmptyInput ==
    \/ pc = "raw" /\ raw_csv = <<>>
    \/ pc = "smoothed" /\ smoothed_csv = <<>>
    \/ pc = "segmented" /\ smoothed_csv = <<>>

\* C19: an input table without data rows is fatal for every stage: the
\* smoothing stage, the phase-segmentation stage and the state-and-planner
\* stage end with an error and write no output table, not even a header.
C19_EmptyInputIsFatal ==
    [][EmptyInput => pc' = "failed" /\ files' = files]_vars

(***************************************************************************)
(* Files of failed stages and the caches of the driver (SpecDriver).       *)
(***************************************************************************)
\* C20: every stage is atomic: it completes and its complete output exists,
\* or it fails and leaves no partial output that counts as valid: no later
\* driver run takes the file of a failed stage as cached output and skips
\* the stage.
C20_NoFailedStageCached ==
    \A file \in skipped : file \notin partial

(***************************************************************************)
(* UNKNOWN and STOP over the enum domain (SpecClassify).                   *)
(***************************************************************************)
\* C27: over the enum domain product the classifier returns UNKNOWN exactly
\* for the triples with yield_to empty, or with yield_to none and affordance
\* stop or empty; so (stop, none, l) is planned as
\* (WAIT, unknown_state, "", state_resolved), and planner_cmd STOP is
\* produced only when yield_to is ped, or yield_to is lead with lead_state
\* stopped.
C27_UnknownAndStop ==
    (pc \in {"state", "planner"} /\ EnumTriple(triple)) =>
        /\ state = "UNKNOWN" <=>
              \/ triple.yield_to = ""
              \/ triple.yield_to = "none" /\ triple.affordance \in {"stop", ""}
        /\ pc = "planner" =>
              /\ (triple.affordance = "stop" /\ triple.yield_to = "none") =>
                    planner_info = PlannerInfo("WAIT", "unknown_state", "",
                                               "state_resolved")
              /\ planner_info.planner_cmd = "STOP" =>
                    \/ triple.yield_to = "ped"
                    \/ triple.yield_to = "lead" /\ triple.lead_state = "stopped"

\* a stop without yield target behind a stopped lead state is planned as WAIT
C27_Witness ==
    /\ pc = "planner"
    /\ triple = Triple("stop", "none", "stopped")
    /\ state = "UNKNOWN"
    /\ planner_info = PlannerInfo("WAIT", "unknown_state", "", "state_resolved")

(***************************************************************************)
(* Frames inside the segments that are planned as GO (Spec).               *)
(***************************************************************************)
\* the planner command of the segment that covers a frame of the final table
CommandsAt(r) ==
    {planner_rows[k].planner_cmd : k \in
        {k \in 1..Len(planner_rows) :
            /\ planner_rows[k].clip = r.clip
            /\ planner_rows[k].start_frame <= r.frame_index
            /\ r.frame_index <= planner_rows[k].end_frame}}

\* C23: every frame inside a state-machine segment whose planner command is
\* GO has final affordance go and a final yield_to other than ped; a frame
\* with final yield_to ped or a final affordance other than go lies in a
\* segment planned as FOLLOW, WAIT or STOP.
C23_GoSegmentsHoldGoFrames ==
    pc = "planned" =>
        \A i \in 1..Len(final_rows) :
            \A r \in {final_rows[i]}, cmds \in {CommandsAt(final_rows[i])} :
                /\ cmds # {}
                /\ "GO" \in cmds =>
                      r.affordance_final = "go" /\ r.yield_to_final # "ped"
                /\ (r.yield_to_final = "ped" \/ r.affordance_final # "go") =>
                      cmds \subseteq {"FOLLOW", "WAIT", "STOP"}

\* a GO segment of two frames followed by a frame with a pedestrian that is
\* planned as STOP
C23_Witness ==
    /\ pc = "planned"
    /\ Len(planner_rows) = 2
    /\ planner_rows[1].planner_cmd = "GO"
    /\ planner_rows[1].start_frame < planner_rows[1].end_frame
    /\ planner_rows[2].planner_cmd = "STOP"
    /\ final_rows[3].yield_to_final = "ped"

(***************************************************************************)
(* The two ends of a clip under window-3 smoothing (Spec).                 *)
(***************************************************************************)
StopPed == Triple("stop", "ped", "none")

\* C26: with window 3 and a clip of at least two frames, per attribute the
\* smoothed value of the first frame is its own raw value whenever that is
\* non-empty, and the smoothed value of the last frame is the raw value of
\* the second-to-last frame whenever that is non-empty, whatever the last
\* frame's own raw value; a last frame (stop, ped, none) after
\* (go, none, none) gets the smoothed and final triple (go, none, none).
C26_EndsAsymmetric ==
    pc \in {"smoothed", "segmented", "planned"} =>
        \A c \in ClipsOf(raw_csv) :
            \A frames \in {FramesOf(c)}, sm \in {SmoothedOf(c)} :
                \A n \in {Len(frames)} :
                    n >= 2 =>
                        /\ \A attr \in Attributes :
                              /\ frames[1][attr] # "" =>
                                    sm[1][SmoothedField(attr)] = frames[1][attr]
                              /\ frames[n - 1][attr] # "" =>
                                    sm[n][SmoothedField(attr)] = frames[n - 1][attr]
                        /\ (RawTriple(frames[n]) = StopPed
                            /\ RawTriple(frames[n - 1]) = GoFree) =>
                              /\ SmoothedTriple(sm[n]) = GoFree
                              /\ pc = "planned" =>
                                    FinalTriple(StateInput(c)[n]) = GoFree

\* three frames wait, go, (stop, ped): the last frame ends as (go, none, none)
\* while the first keeps its wait
C26_Witness ==
    /\ pc = "planned"
    /\ Len(final_rows) = 3
    /\ RawTriple(final_rows[1]) = WaitFree
    /\ RawTriple(final_rows[2]) = GoFree
    /\ RawTriple(final_rows[3]) = StopPed
    /\ SmoothedTriple(final_rows[1]) = WaitFree
    /\ SmoothedTriple(final_rows[3]) = GoFree
    /\ FinalTriple(final_rows[3]) = GoFree

(***************************************************************************)
(* Properties of the driver and of the overlay (SpecDriver).               *)
(***************************************************************************)
\* the overlay stage has written the video of the clip in this run
OverlayWritten == pc = "done" /\ OverlayFile \notin skipped

\* the rows of planner_commands.csv of the clip whose frame range holds the
\* frame: the state-machine segments that contain it
ContainingStateSegments(clip, frame_index) ==
    {k \in 1..Len(planner_rows) :
        /\ planner_rows[k].clip = clip
        /\ planner_rows[k].start_frame <= frame_index
        /\ frame_index <= planner_rows[k].end_frame}

\* C24: in the overlay stage the planner command (behavior and intent) shown
\* for a frame is the command of the state-machine segment of the clip whose
\* [start_frame, end_frame] range contains the frame, also when the phase
\* segmentation and the state segmentation cut the clip at different frames
C24_CommandOfContainingStateSegment ==
    OverlayWritten =>
        \A i \in 1..Len(hud) :
            \A k \in ContainingStateSegments("clip1", hud[i].frame_index) :
                /\ hud[i].behavior = PlannerEntry(planner_rows[k]).behavior
                /\ hud[i].intent = PlannerEntry(planner_rows[k]).intent

\* the positions of a run, in the order of main.py: before stage 0, then
\* after each of the stages extract_frames, run_vlm_inference,
\* temporal_smoothing, segment_world_state, generate_segment_gloss,
\* build_state_and_planner and overlay has returned success
Positions ==
    <<"start", "frames", "raw", "smoothed", "segmented", "glossed", "planned",
      "done">>

PositionOf(p) == CHOOSE k \in 1..Len(Positions) : Positions[k] = p

\* the stages 0..k-2 have returned success when the run is at position k:
\* the output of each of them exists
EarlierStagesSucceeded ==
    pc \in {Positions[k] : k \in 1..Len(Positions)} =>
        LET k == PositionOf(pc)
        IN  /\ k > 1 => frames_dir # "absent"
            /\ k > 2 => RawFile \in files
            /\ k > 3 => SmoothedFile \in files
            /\ k > 4 => SegmentsFile \in files
            /\ k > 5 => GlossFile \in files
            /\ k > 6 => PlannerFile \in files
            /\ k > 7 => OverlayFile \in files

\* a step of the run at the stage after position k writes the output of
\* that stage alone
OnlyOwnOutput ==
    /\ frames_dir' # frames_dir => pc = "start"
    /\ raw_csv' # raw_csv => pc \in {"start", "frames"}
    /\ smoothed_csv' # smoothed_csv => pc = "raw"
    /\ segments_csv' # segments_csv => pc = "smoothed"
    /\ GlossFile \in files' \ files => pc = "segmented"
    /\ planner_rows' # planner_rows => pc = "glossed"
    /\ hud' # hud => pc = "planned"

\* C21: the driver runs the stages in the fixed order extract_frames,
\* run_vlm_inference, temporal_smoothing, segment_world_state,
\* generate_segment_gloss, build_state_and_planner, overlay; a stage is
\* started only after every earlier stage has returned success, and the
\* first of the first six stages that fails ends the run (exit status 1)
\* without any later stage being started
C21_StagesInOrder ==
    [][/\ pc \notin {"failed", "done"} /\ pc' # pc =>
              pc' \in {Positions[PositionOf(pc) + 1], "failed"}
       /\ pc \in {"failed", "done"} /\ pc' # pc => pc' = "start"
       /\ OnlyOwnOutput
       /\ pc' # pc => EarlierStagesSucceeded']_vars

\* the gloss stage has failed in a run that executed the four stages before
\* it: the run has ended and neither the planner table nor the video exists
C21_Witness ==
    /\ pc = "failed"
    /\ skipped = {}
    /\ frames_dir = "fresh"
    /\ {RawFile, SmoothedFile, SegmentsFile} \subseteq files
    /\ partial = {}
    /\ files \cap {GlossFile, PlannerFile, OverlayFile} = {}

\* the tables and the video are those computed from what is on disk now
OutputsRegenerated ==
    /\ raw_csv = labels
    /\ smoothed_csv = SmoothAll(raw_csv)
    /\ segments_csv = SegmentAll(smoothed_csv)
    /\ planner_rows =
           PlannerRows(add_prev_next(segment_states(
               reinject_go_short(load_raw_world(raw_csv), smoothed_csv))))
    /\ hud = make_overlay_video_for_clip("clip1", Len(labels), smoothed_csv,
                                         segments_csv, planner_rows)

\* C22: with --force (or --force-all) every stage 0..6 is executed and its
\* output is regenerated from its current input, whatever artifacts
\* (extracted frames, CSV tables, overlay video) already exist
C22_ForceRegeneratesAll ==
    force /\ pc = "done" =>
        /\ skipped = {}
        /\ frames_dir = "fresh"
        /\ OutputsRegenerated

\* the stage 1..5 that a run at position p reaches next
StageAt(p) == PositionOf(p) - 1

\* the tables and the files are left as they are
OutputsUntouched ==
    UNCHANGED <<raw_csv, smoothed_csv, segments_csv, final_rows, state_segs,
                machine_rows, planner_rows, files, hud>>

\* C25: in a run without --force each of the stages 1..5 is executed if and
\* only if its own output is absent when the stage is reached: a stage whose
\* output exists is skipped whatever the stages before it did in the run,
\* and a stage whose output is absent is never taken as cached
C25_ExecutedIffOwnOutputAbsent ==
    [][~force /\ pc \in {"frames", "raw", "smoothed", "segmented", "glossed"}
              /\ pc' # pc =>
           LET file == StageFiles[StageAt(pc)]
           IN  IF file \in files
               THEN /\ pc' = Positions[PositionOf(pc) + 1]
                    /\ skipped' = skipped \cup {file}
                    /\ OutputsUntouched
               ELSE skipped' = skipped]_vars

\* a run without --force has ended with success, having executed the
\* inference and skipped the smoothing: the smoothed table is not the one
\* the smoothing computes from the raw table the run has written
C25_Witness ==
    /\ pc = "done"
    /\ ~force
    /\ RawFile \notin skipped
    /\ SmoothedFile \in skipped
    /\ raw_csv = labels
    /\ smoothed_csv # SmoothAll(raw_csv)

====
